---- MODULE Spec2Model ----
(***************************************************************************)
(* A model of src/main_chat.py: the model-selection fallback of            *)
(* generate_text, the path check of the file-taking commands, and the      *)
(* session loop of start_chat_loop with its log files.                     *)
(* Further specifications cover the credential check (SpecCred), the      *)
(* formatters applied to a model reply (SpecFmt), _append_jsonl on a file  *)
(* system (SpecLog) and a streaming turn with its spinner thread           *)
(* (SpecStream).                                                           *)
(*                                                                         *)
(* Strings the code inspects are sequences of tokens, so that startswith,  *)
(* endswith, "in" and lower() are computed and not assumed:                *)
(*   "gemini-1.5-flash-latest" is <<"gemini-1.5-", "flash", "-latest">>,   *)
(*   an error message is the sequence of its words,                        *)
(*   a path is a sequence of characters.                                   *)
(***************************************************************************)
EXTENDS Integers, Sequences, FiniteSets, TLC

VARIABLES
    \* ---- generate_text ----
    hasKey,        \* GOOGLE_API_KEY is set
    model_name,    \* the preferred model id (argument of generate_text)
    backend,       \* what genai.list_models() would enumerate
    failAt,        \* list_models raises after yielding failAt entries (NoFail: never)
    listed,        \* genai.list_models() has been called
    available,     \* local `available`
    candidates,    \* local `candidates`
    tried,         \* local `tried`
    last_err,      \* local `last_err`
    idx,           \* position of the for loop over candidates
    invoked,       \* the generate calls issued so far, with their outcome
    gpc,           \* control point of generate_text
    result,        \* what generate_text returned or raised
    \* ---- the commands taking an optional path ----
    pcmd,          \* the command last handled
    parg,          \* its path argument (parts[1]) or NoArg
    ppc,           \* "await": at input(); "input": the command has its code_text
    opened,        \* the files the command opened for reading (absolute paths)
    refused,       \* the last command printed the invalid-path message
    askedPaste,    \* the last command called _read_code_from_user
    code_text,     \* local `code_text` after the input phase
    \* ---- start_chat_loop ----
    lpc,           \* control point of start_chat_loop
    crashedIn,     \* the handler an exception escaped from, if any
    lastInput,     \* the kind of line input() returned last
    line,          \* what input() returned at the prompt, before strip()
    signal,        \* where an end-of-input or interrupt arrived, if any
    model,         \* the id the `model` handle was constructed with
    chat,          \* the id the `chat` session was started on
    system_instruction,
    session_log,   \* local `session_log`: the name of the current log file
    logs,          \* the log directory: file name -> records
    clock,         \* the wall clock, in ticks
    segments,      \* the file of each segment event written, in order
    logBefore,     \* the current log file as it was when the turn began
    remote,        \* how the remote call of the turn went
    appendFailed,  \* the assistant record of the turn could not be written
    chunks,        \* the chunks the stream yielded in this turn
    full_text_parts,
    pending,       \* the exception in flight through the finally block
    \* ---- the formatters applied to a reply of the remote model ----
    fkind,         \* which formatter is applied
    reply,         \* local `out`: the text generate_text returned
    src,           \* argument `code_text` of the formatter
    fret,          \* what the formatter returned or raised
    \* ---- _append_jsonl on the file system ----
    disk,          \* absolute path -> the lines of the file, <<>> if it does not exist
    before,        \* disk as it was when the last _append_jsonl was called
    wpath,         \* argument `path` of the last _append_jsonl
    wres,          \* how the last _append_jsonl ended
    nwrites,       \* the calls of _append_jsonl so far
    \* ---- one streaming turn, the spinner thread beside the main thread ----
    mpc,           \* control point of the main thread in lines 716-773
    tpc,           \* control point of the spinner thread in _spinner
    stop_spinner,  \* the event stop_spinner is set
    first_chunk,   \* the event first_chunk is set
    stdout,        \* what has been printed, in order
    text_parts,    \* local `full_text_parts`
    slog,          \* the records of the session log written in this turn
    raised,        \* the exception in flight through the finally block
    nchunks,       \* the chunks the response has yielded
    \* ---- one /testify command behind its input phase ----
    tcode,         \* local `code_text`: None when the paste was cancelled
    tstep,         \* control point of the handler in lines 646-690
    effects,       \* files written, model replies and test runs, in order
    tfiles         \* local `files`: the generated test files

genLocals == <<backend, failAt, listed, available, candidates, tried,
               last_err, idx, invoked, gpc, result>>

gvars == <<hasKey, model_name, genLocals>>

lvars == <<lpc, crashedIn, lastInput, line, signal, model, chat, system_instruction, session_log,
           logs, clock, segments, logBefore, remote, appendFailed, chunks,
           full_text_parts, pending>>

pvars == <<ppc, pcmd, parg, opened, refused, askedPaste, code_text>>

fvars == <<fkind, reply, src, fret>>

\* the parts no action of generate_text, of the path commands or of the
\* session loop touches
wvars == <<disk, before, wpath, wres, nwrites>>

svars == <<mpc, tpc, stop_spinner, first_chunk, stdout, text_parts, slog, raised, nchunks>>

yvars == <<tcode, tstep, effects, tfiles>>

others == <<fvars, wvars, svars, yvars>>

vars == <<gvars, pvars, lvars, others>>

None == <<"None">>

\* the command was given without a path (len(parts) < 2)
NoArg == <<>>

(***************************************************************************)
(* Generic sequence helpers                                                *)
(***************************************************************************)
InSeq(x, s) == \E i \in 1..Len(s) : s[i] = x

StartsWith(s, p) == Len(s) >= Len(p) /\ SubSeq(s, 1, Len(p)) = p

EndsWith(s, p) == Len(s) >= Len(p) /\ SubSeq(s, Len(s) - Len(p) + 1, Len(s)) = p

Contains(s, p) == \E i \in 1..(Len(s) - Len(p) + 1) : SubSeq(s, i, i + Len(p) - 1) = p

NoDup(s) == \A i, j \in 1..Len(s) : s[i] = s[j] => i = j

SeqsUpTo(S, n) == UNION {[1..k -> S] : k \in 0..n}

(***************************************************************************)
(* Model identifiers                                                       *)
(***************************************************************************)
IdX == <<"x">>
Id15F == <<"gemini-1.5-", "flash">>
Id15FL == <<"gemini-1.5-", "flash", "-latest">>
Id15P == <<"gemini-1.5-", "pro">>
Id15PL == <<"gemini-1.5-", "pro", "-latest">>
Id25F == <<"gemini-2.", "5-flash">>
Id25FL == <<"gemini-2.", "5-flash", "-latest">>
Id25P == <<"gemini-2.", "5-pro">>
Id25PL == <<"gemini-2.", "5-pro", "-latest">>
IdPro == <<"gemini-pro">>

pref_order == <<Id25F, Id25FL, Id25P, Id25PL, Id15F, Id15FL, Id15P, Id15PL, IdPro>>

\* the preferred ids the model tries; <<>> is the empty string
PreferredIds == {<<>>, IdX, Id15F, Id15FL, IdPro}

(***************************************************************************)
(* list_available_text_models                                              *)
(***************************************************************************)
LowerMethod(m) ==
    CASE m = "generateContent" -> "generatecontent"
      [] m = "GENERATECONTENT" -> "generatecontent"
      [] m = "embedContent" -> "embedcontent"
      [] OTHER -> m

\* what the backend may report: an id (<<>> when the entry has no name) and
\* its supported_generation_methods
ModelEntries ==
    {[name |-> n, methods |-> {"generateContent"}] : n \in {IdX, Id15F, Id15FL, Id25F, IdPro}}
    \cup {[name |-> Id25F, methods |-> {"embedContent"}],
          [name |-> IdPro, methods |-> {"GENERATECONTENT", "embedContent"}],
          [name |-> <<>>, methods |-> {"generateContent"}]}

Supports(m) == \E x \in m.methods : LowerMethod(x) = "generatecontent"

RECURSIVE NamesOf(_)
NamesOf(ms) ==
    IF ms = <<>> THEN <<>>
    ELSE LET m == ms[Len(ms)]
             rest == NamesOf(SubSeq(ms, 1, Len(ms) - 1))
         IN IF Supports(m) /\ m.name # <<>> THEN Append(rest, m.name) ELSE rest

NoFail == 0 - 1

\* variant: the except clause discards what was collected
list_models_EmptyOnFailure(bk, fa) ==
    IF fa = NoFail THEN NamesOf(bk) ELSE <<>>

\* the names appended before the enumeration ends or raises; the exception
\* is swallowed and the names collected so far are returned
list_available_text_models(bk, fa) ==
    IF fa = NoFail THEN NamesOf(bk) ELSE NamesOf(SubSeq(bk, 1, fa))

(***************************************************************************)
(* Candidate list construction                                             *)
(***************************************************************************)
LatestEligible(mn) ==
    /\ ~EndsWith(mn, <<"-latest">>)
    /\ StartsWith(mn, <<"gemini-1.5-">>) \/ StartsWith(mn, <<"gemini-2.">>)

\* variant: PreferredPart without the "-latest" variant
PreferredPartNoVariant(mn) == IF mn = <<>> THEN <<>> ELSE <<mn>>

PreferredPart(mn) ==
    IF mn = <<>> THEN <<>>
    ELSE IF LatestEligible(mn) THEN <<mn, mn \o <<"-latest">>>>
    ELSE <<mn>>

\* variant: the membership test on the candidate list is missing
RECURSIVE AppendNewNoCheck(_, _, _)
AppendNewNoCheck(cands, ns, avail) ==
    IF ns = <<>> THEN cands
    ELSE LET n == Head(ns)
         IN IF InSeq(n, avail)
            THEN AppendNewNoCheck(Append(cands, n), Tail(ns), avail)
            ELSE AppendNewNoCheck(cands, Tail(ns), avail)

\* for n in ns: if <cond> and n not in cands: cands.append(n)
RECURSIVE AppendNew(_, _, _)
AppendNew(cands, ns, avail) ==
    IF ns = <<>> THEN cands
    ELSE LET n == Head(ns)
         IN IF InSeq(n, avail) /\ ~InSeq(n, cands)
            THEN AppendNew(Append(cands, n), Tail(ns), avail)
            ELSE AppendNew(cands, Tail(ns), avail)

\* variant: the two loops are in the other order
BuildCandidatesAvailableFirst(mn, avail) ==
    AppendNew(AppendNew(PreferredPart(mn), avail, avail), pref_order, avail)

BuildCandidates(mn, avail) ==
    AppendNew(AppendNew(PreferredPart(mn), pref_order, avail), avail, avail)

(***************************************************************************)
(* Error classification                                                    *)
(***************************************************************************)
LowerTok(t) ==
    CASE t = "Not" -> "not"
      [] t = "NOT" -> "not"
      [] t = "Found" -> "found"
      [] t = "IS" -> "is"
      [] t = "SUPPORTED" -> "supported"
      [] t = "Invalid" -> "invalid"
      [] t = "Argument" -> "argument"
      [] t = "Model" -> "model"
      [] t = "Quota" -> "quota"
      [] t = "HTTP" -> "http"
      [] OTHER -> t

Lower(msg) == [i \in 1..Len(msg) |-> LowerTok(msg[i])]

Err404 == <<"HTTP", "404">>
ErrNotFound == <<"Model", "Not", "Found">>
ErrNotSupported == <<"Model", "IS", "NOT", "SUPPORTED">>
ErrInvalidArg == <<"Invalid", "Argument">>
ErrQuota == <<"Quota", "exceeded">>
ErrNotPermitted == <<"Not", "permitted">>

Errors == {Err404, ErrNotFound, ErrNotSupported, ErrInvalidArg, ErrQuota, ErrNotPermitted}

Texts == {"hello", ""}

Outcomes == {[ok |-> TRUE, text |-> t, err |-> None] : t \in Texts}
            \cup {[ok |-> FALSE, text |-> "", err |-> e] : e \in Errors}

\* variant: the second marker is "not" instead of "not found"
IsTransientLoose(e) ==
    LET msg == Lower(e)
    IN \/ Contains(msg, <<"404">>)
       \/ Contains(msg, <<"not">>)
       \/ Contains(msg, <<"is", "not", "supported">>)
       \/ Contains(msg, <<"invalid", "argument">>)

IsTransient(e) ==
    LET msg == Lower(e)
    IN \/ Contains(msg, <<"404">>)
       \/ Contains(msg, <<"not", "found">>)
       \/ Contains(msg, <<"is", "not", "supported">>)
       \/ Contains(msg, <<"invalid", "argument">>)

\* variant: tried.append(name) is missing
OnExceptionNoAppend(name, e, tr, le) ==
    [tried |-> tr,
     last_err |-> IF IsTransient(e) THEN e ELSE le,
     reraise |-> ~IsTransient(e)]

\* variant: last_err keeps the first transient error
OnExceptionFirstError(name, e, tr, le) ==
    [tried |-> Append(tr, name),
     last_err |-> IF IsTransient(e) /\ le = None THEN e ELSE le,
     reraise |-> ~IsTransient(e)]

\* the except clause of the fallback loop: what becomes of tried and
\* last_err, and whether the exception is re-raised
OnException(name, e, tr, le) ==
    [tried |-> Append(tr, name),
     last_err |-> IF IsTransient(e) THEN e ELSE le,
     reraise |-> ~IsTransient(e)]

(***************************************************************************)
(* The log directory and the wall clock                                    *)
(***************************************************************************)
MaxClock == 3

MaxRecords == 4

MaxChunks == 2

\* datetime.now() has sub-second precision; a second has this many ticks
TicksPerSecond == 2

\* strftime("%Y%m%d-%H%M%S"): the time truncated to the second
Timestamp(clk) == clk \div TicksPerSecond

\* the names chat-<timestamp>.jsonl that can occur
LogFiles == 0..Timestamp(MaxClock)

\* lines 120-123: the file name is derived from the clock alone
new_session_logfile(clk) == Timestamp(clk)

\* variant: the file is opened with "w"
append_jsonl_truncating(lg, path, rec) == [lg EXCEPT ![path] = <<rec>>]

\* lines 131-132: open(abs_path, "a") and write one line
append_jsonl(lg, path, rec) == [lg EXCEPT ![path] = Append(@, rec)]

RECURSIVE SumLen(_, _)
SumLen(lg, n) == IF n < 0 THEN 0 ELSE Len(lg[n]) + SumLen(lg, n - 1)

TotalRecords(lg) == SumLen(lg, Timestamp(MaxClock))

\* start_chat_loop before it is called
LoopIdle ==
    /\ lpc = "init"
    /\ crashedIn = "none"
    /\ lastInput = "none"
    /\ line = None
    /\ signal = "none"
    /\ model = None
    /\ chat = None
    /\ system_instruction = None
    /\ session_log = None
    /\ logs = [f \in LogFiles |-> <<>>]
    /\ clock = 0
    /\ segments = <<>>
    /\ logBefore = <<>>
    /\ remote = "none"
    /\ appendFailed = FALSE
    /\ chunks = <<>>
    /\ full_text_parts = <<>>
    /\ pending = "none"

\* generate_text before it is called
GenIdle ==
    /\ backend = <<>>
    /\ failAt = NoFail
    /\ listed = FALSE
    /\ available = <<>>
    /\ candidates = <<>>
    /\ tried = <<>>
    /\ last_err = None
    /\ idx = 1
    /\ invoked = <<>>
    /\ gpc = "start"
    /\ result = [kind |-> "none"]

(***************************************************************************)
(* generate_text                                                           *)
(***************************************************************************)
MaxModels == 2

\* the path commands before any command was given
TestifyIdle ==
    /\ tcode = None
    /\ tstep = "idle"
    /\ effects = <<>>
    /\ tfiles = <<>>

StreamIdle ==
    /\ mpc = "idle"
    /\ tpc = "unborn"
    /\ stop_spinner = FALSE
    /\ first_chunk = FALSE
    /\ stdout = <<>>
    /\ text_parts = <<>>
    /\ slog = <<>>
    /\ raised = "none"
    /\ nchunks = 0

LogIdle ==
    /\ disk = <<>>
    /\ before = <<>>
    /\ wpath = <<>>
    /\ wres = "none"
    /\ nwrites = 0

FmtIdle ==
    /\ fkind = "none"
    /\ reply = <<>>
    /\ src = <<>>
    /\ fret = [kind |-> "none"]

PathIdle ==
    /\ ppc = "await"
    /\ pcmd = "none"
    /\ parg = NoArg
    /\ opened = {}
    /\ refused = FALSE
    /\ askedPaste = FALSE
    /\ code_text = None

GenInit ==
    /\ TestifyIdle
    /\ PathIdle
    /\ LoopIdle
    /\ FmtIdle
    /\ LogIdle
    /\ StreamIdle
    /\ hasKey \in BOOLEAN
    /\ model_name \in PreferredIds
    /\ backend \in SeqsUpTo(ModelEntries, MaxModels)
    /\ failAt \in {NoFail} \cup (0..Len(backend))
    /\ listed = FALSE
    /\ available = <<>>
    /\ candidates = <<>>
    /\ tried = <<>>
    /\ last_err = None
    /\ idx = 1
    /\ invoked = <<>>
    /\ gpc = "start"
    /\ result = [kind |-> "none"]

\* variant: the available list is fetched before the credential is tested
GenStartListsFirst ==
    /\ gpc = "start"
    /\ listed' = TRUE
    /\ available' = list_available_text_models(backend, failAt)
    /\ IF ~hasKey
       THEN /\ gpc' = "raised"
            /\ result' = [kind |-> "nokey"]
            /\ UNCHANGED candidates
       ELSE /\ candidates' = BuildCandidates(model_name, available')
            /\ gpc' = "loop"
            /\ UNCHANGED result
    /\ UNCHANGED <<hasKey, model_name, backend, failAt, tried, last_err, idx, invoked>>
    /\ UNCHANGED <<pvars, lvars, others>>

\* lines 53-91: credential check, listing, candidate construction
GenStart ==
    /\ gpc = "start"
    /\ IF ~hasKey
       THEN /\ gpc' = "raised"
            /\ result' = [kind |-> "nokey"]
            /\ UNCHANGED <<listed, available, candidates>>
       ELSE /\ listed' = TRUE
            /\ available' = list_available_text_models(backend, failAt)
            /\ candidates' = BuildCandidates(model_name, available')
            /\ gpc' = "loop"
            /\ UNCHANGED result
    /\ UNCHANGED <<hasKey, model_name, backend, failAt, tried, last_err, idx, invoked>>
    /\ UNCHANGED <<pvars, lvars, others>>

\* lines 92-108: one iteration of the loop over candidates
TryCandidate ==
    /\ gpc = "loop"
    /\ idx <= Len(candidates)
    /\ \E out \in Outcomes :
         LET name == candidates[idx]
         IN /\ invoked' = Append(invoked, [name |-> name, out |-> out])
            /\ IF out.ok
               THEN /\ gpc' = "returned"
                    /\ result' = [kind |-> "text", text |-> out.text]
                    /\ UNCHANGED <<tried, last_err, idx>>
               ELSE LET h == OnException(name, out.err, tried, last_err)
                    IN /\ tried' = h.tried
                       /\ last_err' = h.last_err
                       /\ IF h.reraise
                          THEN /\ gpc' = "raised"
                               /\ result' = [kind |-> "error", err |-> out.err]
                               /\ UNCHANGED idx
                          ELSE /\ idx' = idx + 1
                               /\ UNCHANGED <<gpc, result>>
    /\ UNCHANGED <<hasKey, model_name, backend, failAt, listed, available, candidates>>
    /\ UNCHANGED <<pvars, lvars, others>>

\* lines 109-111: the loop ran off the end of the candidate list
Exhausted ==
    /\ gpc = "loop"
    /\ idx > Len(candidates)
    /\ gpc' = "raised"
    /\ result' = [kind |-> "nousable", attempted |-> tried,
                  available |-> available, last |-> last_err]
    /\ UNCHANGED <<hasKey, model_name, backend, failAt, listed, available, candidates,
                   tried, last_err, idx, invoked>>
    /\ UNCHANGED <<pvars, lvars, others>>

GenNext == GenStart \/ TryCandidate \/ Exhausted

SpecGen == GenInit /\ [][GenNext]_vars

(***************************************************************************)
(* Paths: os.path.abspath and the check of /promptify, /fixcode, /testify  *)
(***************************************************************************)
RECURSIVE Split(_)
\* s.split("/")
Split(s) ==
    IF s = <<>> THEN << <<>> >>
    ELSE LET rest == Split(Tail(s))
         IN IF Head(s) = "/" THEN << <<>> >> \o rest
            ELSE << <<Head(s)>> \o Head(rest) >> \o Tail(rest)

RECURSIVE Normalise(_, _)
\* os.path.normpath on an absolute path: "" and "." are dropped, ".." pops
Normalise(done, comps) ==
    IF comps = <<>> THEN done
    ELSE LET c == Head(comps)
         IN IF c = <<>> \/ c = <<".">> THEN Normalise(done, Tail(comps))
            ELSE IF c = <<".", ".">>
                 THEN Normalise(IF done = <<>> THEN done ELSE SubSeq(done, 1, Len(done) - 1),
                                Tail(comps))
            ELSE Normalise(Append(done, c), Tail(comps))

RECURSIVE Join(_)
Join(comps) == IF comps = <<>> THEN <<>> ELSE <<"/">> \o Head(comps) \o Join(Tail(comps))

RenderAbs(comps) == IF comps = <<>> THEN <<"/">> ELSE Join(comps)

\* os.getcwd(): /h/p
Cwd == <<"/", "h", "/", "p">>

\* os.path.abspath(path)
abspath(path) ==
    LET full == IF Head(path) = "/" THEN path ELSE Cwd \o <<"/">> \o path
    IN RenderAbs(Normalise(<<>>, Split(full)))

\* the regular files of the file system, with their content
Files == {<<"/", "h", "/", "p", "/", "f">>,
          <<"/", "h", "/", "p", "/", "p", "q", "/", "f">>,
          <<"/", "h", "/", "p", "/", "e">>,
          <<"/", "h", "/", "p", "q", "/", "f">>,
          <<"/", "h", "/", "f">>,
          <<"/", "f">>}

\* a text is a sequence of tokens, " " being white space
Content(f) == IF f = <<"/", "h", "/", "p", "/", "e">> THEN <<" ", " ">> ELSE <<"code", " ">>

RECURSIVE LStrip(_)
LStrip(t) == IF t # <<>> /\ Head(t) = " " THEN LStrip(Tail(t)) ELSE t

RECURSIVE RStrip(_)
RStrip(t) == IF t # <<>> /\ t[Len(t)] = " " THEN RStrip(SubSeq(t, 1, Len(t) - 1)) ELSE t

\* str.strip()
Strip(t) == RStrip(LStrip(t))

isfile(p) == p \in Files

PathNames == {<<".", ".">>, <<".">>, <<"p">>, <<"p", "q">>, <<"f">>, <<"h">>, <<"e">>}

MaxDepth == 3

\* the path arguments a user may type: relative or absolute, no whitespace
PathArgs ==
    LET rel(cs) == Tail(Join(cs))
    IN {rel(cs) : cs \in SeqsUpTo(PathNames, MaxDepth) \ {<<>>}}
       \cup {Join(cs) : cs \in SeqsUpTo(PathNames, MaxDepth - 1) \ {<<>>}}

\* what _read_code_from_user returns: None when cancelled, else the stripped text
Pasted == {None, <<>>, <<"code">>}

\* lines 564-566: not (not abs_fp.startswith(cwd) or not os.path.isfile(abs_fp))
PathAccepted(path) ==
    LET abs_fp == abspath(path)
        cwd == abspath(Cwd)
    IN ~(~StartsWith(abs_fp, cwd) \/ ~isfile(abs_fp))

PathInit ==
    /\ TestifyIdle
    /\ PathIdle
    /\ GenIdle
    /\ LoopIdle
    /\ FmtIdle
    /\ LogIdle
    /\ StreamIdle
    /\ hasKey = TRUE
    /\ model_name = Id15FL

\* lines 561-583 (and 594-616, 626-648): the input phase of a command
\* given as `cmd` or `cmd path`
ReadInput(cmd) ==
    /\ ppc = "await"
    /\ ppc' = "input"
    /\ pcmd' = cmd
    /\ \E arg \in PathArgs \cup {NoArg}, readFails \in BOOLEAN, paste \in Pasted :
         LET accepted == arg # NoArg /\ PathAccepted(arg)
             fromFile == IF accepted /\ ~readFails
                         THEN Strip(Content(abspath(arg))) ELSE None
         IN /\ parg' = arg
            /\ refused' = (arg # NoArg /\ ~accepted)
            /\ opened' = IF accepted THEN {abspath(arg)} ELSE {}
            /\ askedPaste' = (fromFile = None)
            /\ code_text' = IF fromFile = None THEN paste ELSE fromFile
    /\ UNCHANGED <<gvars, lvars, others>>

Promptify == ReadInput("/promptify")

Fixcode == ReadInput("/fixcode")

Testify == ReadInput("/testify")

\* lines 581-590 (and 614-623, 646-690): the command reports that there is
\* no code, or runs its skill on code_text; the loop continues with input()
FinishCommand ==
    /\ ppc = "input"
    /\ ppc' = "await"
    /\ pcmd' = "none"
    /\ parg' = NoArg
    /\ opened' = {}
    /\ refused' = FALSE
    /\ askedPaste' = FALSE
    /\ code_text' = None
    /\ UNCHANGED <<gvars, lvars, others>>

PathNext == Promptify \/ Fixcode \/ Testify \/ FinishCommand

SpecPath == PathInit /\ [][PathNext]_vars

(***************************************************************************)
(* start_chat_loop                                                         *)
(***************************************************************************)
Rec(tag, m, sy, tx) == [tag |-> tag, model |-> m, system |-> sy, text |-> tx]

\* system_instruction or ""
OrEmpty(sy) == IF sy = None THEN <<>> ELSE sy

NewModels == {IdX}

SysTexts == {<<"s">>}

Terminated == {"exit0", "exit1", "crashed"}

CanLog(n) == TotalRecords(logs) + n <= MaxRecords

turnVars == <<logBefore, remote, appendFailed, chunks, full_text_parts, pending>>

outerFrame == <<hasKey, genLocals, pvars, others>>

loopFrame == <<outerFrame, signal>>

\* an exception leaves start_chat_loop: the process ends with a traceback
Crash(where) ==
    /\ lpc' = "crashed"
    /\ crashedIn' = where

LoopInit ==
    /\ TestifyIdle
    /\ PathIdle
    /\ GenIdle
    /\ LoopIdle
    /\ FmtIdle
    /\ LogIdle
    /\ StreamIdle
    /\ hasKey \in BOOLEAN
    /\ model_name = Id15FL

\* the wall clock advances while the program waits or works
Tick ==
    /\ lpc \notin Terminated
    /\ clock < MaxClock
    /\ clock' = clock + 1
    /\ UNCHANGED <<lpc, crashedIn, lastInput, line, model, chat, system_instruction,
                   session_log, logs, segments, turnVars, model_name, loopFrame>>

\* lines 444-466
Startup ==
    /\ lpc = "init"
    /\ \E sys \in {None} \cup SysTexts, fail \in {"none", "make_model", "start_chat", "log"} :
         IF ~hasKey
         THEN /\ lpc' = "exit1"
              /\ UNCHANGED <<crashedIn, model, chat, system_instruction, session_log,
                             logs, segments>>
         ELSE /\ system_instruction' = sys
              /\ IF fail = "none"
                 THEN /\ model' = model_name
                      /\ chat' = model_name
                      /\ session_log' = new_session_logfile(clock)
                      /\ logs' = append_jsonl(logs, session_log',
                                     Rec("session_start", model_name, OrEmpty(sys), None))
                      /\ segments' = Append(segments, session_log')
                      /\ lpc' = "await"
                      /\ UNCHANGED crashedIn
                 ELSE /\ Crash("startup")
                      /\ UNCHANGED <<model, chat, session_log, logs, segments>>
    /\ UNCHANGED <<lastInput, line, clock, turnVars, model_name, loopFrame>>

\* str.split() of a stripped line: the words between runs of blanks
RECURSIVE SplitWords(_)
SplitWords(t) ==
    IF t = <<>> THEN <<>>
    ELSE IF Head(t) = " " THEN SplitWords(Tail(t))
    ELSE LET rest == SplitWords(Tail(t))
         IN  IF Len(t) > 1 /\ t[2] # " "
             THEN << <<Head(t)>> \o Head(rest) >> \o Tail(rest)
             ELSE << <<Head(t)>> >> \o rest

\* the words behind the marker that name a command
Commands == {"exit", "reset", "model", "system", "models", "promptify",
             "fixcode", "testify", "help"}

\* parts[0].lower()
LowerWord(w) == [i \in 1..Len(w) |-> IF w[i] = "HELP" THEN "help" ELSE w[i]]

\* the branch of the elif chain a first word selects: the kind of command
CommandOf(word) ==
    IF Len(word) = 2 /\ word[1] = "/" /\ word[2] \in Commands
    THEN CASE word[2] = "exit" -> "/exit"
           [] word[2] = "reset" -> "/reset"
           [] word[2] = "model" -> "/model"
           [] word[2] = "system" -> "/system"
           [] word[2] = "models" -> "/models"
           [] word[2] = "promptify" -> "/promptify"
           [] word[2] = "fixcode" -> "/fixcode"
           [] word[2] = "testify" -> "/testify"
           [] OTHER -> "/help"
    ELSE "/unknown"

\* variant: a word that names no command makes the line a turn
DispatchUnknownAsTurn(ln) ==
    LET user == Strip(ln)
    IN  IF user = <<>> THEN "blank"
        ELSE IF Head(user) = "/" /\ CommandOf(LowerWord(SplitWords(user)[1])) # "/unknown"
        THEN CommandOf(LowerWord(SplitWords(user)[1]))
        ELSE "turn"

\* lines 470-480 and the elif chain down to 707: what a line is taken for
Dispatch(ln) ==
    LET user == Strip(ln)
    IN  IF user = <<>> THEN "blank"
        ELSE IF Head(user) = "/" THEN CommandOf(LowerWord(SplitWords(user)[1]))
        ELSE "turn"

\* the lines typed at the prompt
InputLines ==
    { <<>>, <<" ">>,
      <<"/", "help">>, <<" ", "/", "HELP", " ">>, <<"/", "x">>, <<"/">>,
      <<"/", "models">>, <<"/", "exit">>, <<"/", "reset">>,
      <<"/", "model">>, <<"/", "model", " ", "x">>,
      <<"/", "system">>, <<"/", "system", " ", "s">>,
      <<"/", "promptify">>, <<"/", "fixcode">>, <<"/", "testify", " ", "f">>,
      <<"hi">>, <<" ", "hi">> }

\* line 470 and 711-714: the text of a turn is the stripped line
UserTexts == {Strip(ln) : ln \in {l \in InputLines : Dispatch(l) = "turn"}}

\* line 470: input() returns a line that the dispatch takes for `kind`
ReadLine(kind) == \E ln \in InputLines : Dispatch(ln) = kind /\ line' = ln

\* a line that changes nothing but what was read: blank (475-476),
\* /help (692-705), an unknown command (707-709), /models (544-558)
PlainLine(kind) ==
    /\ lpc = "await"
    /\ lastInput' = kind
    /\ ReadLine(kind)
    /\ lpc' = "handled"
    /\ UNCHANGED <<crashedIn, model, chat, system_instruction, session_log,
                   logs, clock, segments, turnVars, model_name, loopFrame>>

BlankLine == PlainLine("blank")

CmdHelp == PlainLine("/help")

CmdUnknown == PlainLine("/unknown")

CmdModels == PlainLine("/models")

\* lines 469-473: EOFError or KeyboardInterrupt at input()
EndOfInput ==
    /\ lpc = "await"
    /\ lastInput' = "eof"
    /\ line' = None
    /\ signal' = "prompt"
    /\ lpc' = "exit0"
    /\ UNCHANGED <<crashedIn, model, chat, system_instruction, session_log,
                   logs, clock, segments, turnVars, model_name, outerFrame>>

\* lines 482-484
CmdExit ==
    /\ lpc = "await"
    /\ lastInput' = "/exit"
    /\ ReadLine("/exit")
    /\ lpc' = "exit0"
    /\ UNCHANGED <<crashedIn, model, chat, system_instruction, session_log,
                   logs, clock, segments, turnVars, model_name, loopFrame>>

\* lines 486-499
CmdReset ==
    /\ lpc = "await"
    /\ CanLog(1)
    /\ lastInput' = "/reset"
    /\ ReadLine("/reset")
    /\ \E fail \in {"none", "start_chat", "log"} :
         CASE fail = "start_chat" ->
                /\ Crash("/reset")
                /\ UNCHANGED <<chat, session_log, logs, segments>>
           [] fail = "log" ->
                /\ Crash("/reset")
                /\ chat' = model
                /\ session_log' = new_session_logfile(clock)
                /\ UNCHANGED <<logs, segments>>
           [] fail = "none" ->
                /\ chat' = model
                /\ session_log' = new_session_logfile(clock)
                /\ logs' = append_jsonl(logs, session_log',
                               Rec("session_reset", model_name, OrEmpty(system_instruction), None))
                /\ segments' = Append(segments, session_log')
                /\ lpc' = "handled"
                /\ UNCHANGED crashedIn
    /\ UNCHANGED <<model, system_instruction, clock, turnVars, model_name, loopFrame>>

\* lines 501-522
CmdModel ==
    /\ lpc = "await"
    /\ CanLog(1)
    /\ lastInput' = "/model"
    /\ ReadLine("/model")
    /\ \E new_model \in NewModels \cup {NoArg},
          fail \in {"none", "make_model", "start_chat", "log"} :
         /\ (new_model = NoArg) <=> (Len(SplitWords(Strip(line'))) < 2)
         /\ IF new_model = NoArg \/ fail = "make_model"
            THEN UNCHANGED <<model, chat, model_name, session_log, logs, segments>>
            ELSE /\ model' = new_model
                 /\ IF fail = "start_chat"
                    THEN UNCHANGED <<chat, model_name, session_log, logs, segments>>
                    ELSE /\ chat' = new_model
                         /\ model_name' = new_model
                         /\ session_log' = new_session_logfile(clock)
                         /\ IF fail = "log"
                            THEN UNCHANGED <<logs, segments>>
                            ELSE /\ logs' = append_jsonl(logs, session_log',
                                                Rec("model_changed", new_model, None, None))
                                 /\ segments' = Append(segments, session_log')
    /\ lpc' = "handled"
    /\ UNCHANGED <<crashedIn, system_instruction, clock, turnVars, loopFrame>>

\* lines 524-542
CmdSystem ==
    /\ lpc = "await"
    /\ CanLog(1)
    /\ lastInput' = "/system"
    /\ ReadLine("/system")
    /\ \E new_sys \in SysTexts \cup {<<>>},
          fail \in {"none", "make_model", "start_chat", "log"} :
         \* line 525: the text behind the command word, stripped
         (new_sys = <<>>) = (Len(SplitWords(Strip(line'))) < 2) /\
         IF new_sys = <<>>
         THEN /\ lpc' = "handled"
              /\ UNCHANGED <<crashedIn, system_instruction, model, chat, session_log,
                             logs, segments>>
         ELSE /\ system_instruction' = new_sys
              /\ CASE fail = "make_model" ->
                        /\ Crash("/system")
                        /\ UNCHANGED <<model, chat, session_log, logs, segments>>
                   [] fail = "start_chat" ->
                        /\ Crash("/system")
                        /\ model' = model_name
                        /\ UNCHANGED <<chat, session_log, logs, segments>>
                   [] fail = "log" ->
                        /\ Crash("/system")
                        /\ model' = model_name
                        /\ chat' = model_name
                        /\ session_log' = new_session_logfile(clock)
                        /\ UNCHANGED <<logs, segments>>
                   [] fail = "none" ->
                        /\ model' = model_name
                        /\ chat' = model_name
                        /\ session_log' = new_session_logfile(clock)
                        /\ logs' = append_jsonl(logs, session_log',
                                       Rec("system_changed", None, new_sys, None))
                        /\ segments' = Append(segments, session_log')
                        /\ lpc' = "handled"
                        /\ UNCHANGED crashedIn
    /\ UNCHANGED <<clock, turnVars, model_name, loopFrame>>

\* lines 579-580 (612-613, 644-645) and 142-146: the command has no usable
\* file and reads pasted lines with input()
BeginPaste ==
    /\ lpc = "await"
    /\ lpc' = "paste"
    /\ \E cmd \in {"/promptify", "/fixcode", "/testify"} : lastInput' = cmd /\ ReadLine(cmd)
    /\ UNCHANGED <<crashedIn, model, chat, system_instruction, session_log,
                   logs, clock, segments, turnVars, model_name, loopFrame>>

\* lines 147-149, then 581-583 (614-616, 646-648): EOFError or
\* KeyboardInterrupt while pasting; _read_code_from_user returns None, the
\* command reports that there is no code
PasteInterrupted ==
    /\ lpc = "paste"
    /\ lpc' = "handled"
    /\ signal' = "paste"
    /\ UNCHANGED <<crashedIn, lastInput, line, model, chat, system_instruction, session_log,
                   logs, clock, segments, turnVars, model_name, outerFrame>>

\* the command was read at the prompt, or its pasted text ended with EOF
AtCommand(cmd) ==
    \/ lpc = "await"
    \/ lpc = "paste" /\ lastInput = cmd

\* a skill command: nothing of the session changes
SkillLine(kind) ==
    /\ AtCommand(kind)
    /\ lastInput' = kind
    /\ IF lpc = "await" THEN ReadLine(kind) ELSE UNCHANGED line
    /\ lpc' = "handled"
    /\ UNCHANGED <<crashedIn, model, chat, system_instruction, session_log,
                   logs, clock, segments, turnVars, model_name, loopFrame>>

\* lines 560-590: the input phase (SpecPath) and the skill call inside
\* try/except
CmdPromptify == SkillLine("/promptify")

\* lines 592-623
CmdFixcode == SkillLine("/fixcode")

\* lines 625-690: no code, not Python, or: write the user file (661, not
\* guarded), generate the tests (663-667, guarded), write the generated
\* files (684, not guarded), run pytest (688, captured)
CmdTestify ==
    /\ AtCommand("/testify")
    /\ lastInput' = "/testify"
    /\ IF lpc = "await" THEN ReadLine("/testify") ELSE UNCHANGED line
    /\ \E how \in {"nocode", "notpython", "userwrite_fails", "generate_fails",
                   "testwrite_fails", "ran"} :
         IF how \in {"userwrite_fails", "testwrite_fails"}
         THEN Crash("/testify")
         ELSE lpc' = "handled" /\ UNCHANGED crashedIn
    /\ UNCHANGED <<model, chat, system_instruction, session_log, logs, clock,
                   segments, turnVars, model_name, loopFrame>>

\* lines 711-725: the user record, then chat.send_message(user, stream=True)
TurnStart ==
    /\ lpc = "await"
    /\ CanLog(2)
    /\ lastInput' = "turn"
    /\ ReadLine("turn")
    /\ logBefore' = logs[session_log]
    /\ UNCHANGED <<appendFailed, chunks, full_text_parts, pending>>
    /\ \E user \in UserTexts, logFails \in BOOLEAN, send \in {"ok", "TypeError", "error"} :
         \* line 470: user = input(...).strip()
         user = Strip(line') /\
         IF logFails
         THEN /\ Crash("turn")
              /\ remote' = "none"
              /\ UNCHANGED logs
         ELSE /\ logs' = append_jsonl(logs, session_log, Rec("user", None, None, user))
              /\ UNCHANGED crashedIn
              /\ CASE send = "ok" -> lpc' = "stream" /\ remote' = "pending"
                   [] send = "TypeError" -> lpc' = "fallback" /\ remote' = "pending"
                   [] send = "error" -> lpc' = "handled" /\ remote' = "failed"
    /\ UNCHANGED <<model, chat, system_instruction, session_log, clock, segments,
                   model_name, loopFrame>>

\* lines 728-737: the stream yields a chunk, ends, or raises
StreamChunk ==
    /\ lpc = "stream"
    /\ \E ev \in {"piece", "empty", "end", "TypeError", "error"} :
         CASE ev = "piece" ->
                /\ Len(chunks) < MaxChunks
                /\ chunks' = Append(chunks, "a")
                /\ full_text_parts' = Append(full_text_parts, "a")
                /\ UNCHANGED <<lpc, pending>>
           [] ev = "empty" ->
                /\ Len(chunks) < MaxChunks
                /\ chunks' = Append(chunks, "")
                /\ UNCHANGED <<lpc, pending, full_text_parts>>
           [] ev = "end" ->
                /\ lpc' = "finally"
                /\ UNCHANGED <<pending, chunks, full_text_parts>>
           [] OTHER ->
                /\ lpc' = "finally"
                /\ pending' = ev
                /\ UNCHANGED <<chunks, full_text_parts>>
    /\ UNCHANGED <<crashedIn, lastInput, line, model, chat, system_instruction, session_log,
                   logs, clock, segments, logBefore, remote, appendFailed,
                   model_name, loopFrame>>

\* lines 738-749, then 760 and 772-773: the finally block, and where the
\* exception in flight is caught
StreamFinally ==
    /\ lpc = "finally"
    /\ CASE pending = "none" -> lpc' = "log" /\ UNCHANGED remote
         [] pending = "TypeError" -> lpc' = "fallback" /\ UNCHANGED remote
         [] pending = "error" -> lpc' = "handled" /\ remote' = "failed"
    /\ pending' = "none"
    /\ UNCHANGED <<crashedIn, lastInput, line, model, chat, system_instruction, session_log,
                   logs, clock, segments, logBefore, appendFailed, chunks,
                   full_text_parts, model_name, loopFrame>>

\* lines 751-759, and 772-773 when the append raises
StreamLog ==
    /\ lpc = "log"
    /\ lpc' = "handled"
    /\ remote' = "completed"
    /\ \E logFails \in BOOLEAN :
         IF logFails
         THEN appendFailed' = TRUE /\ UNCHANGED logs
         ELSE /\ logs' = append_jsonl(logs, session_log,
                             Rec("assistant", None, None, full_text_parts))
              /\ UNCHANGED appendFailed
    /\ UNCHANGED <<crashedIn, lastInput, line, model, chat, system_instruction, session_log,
                   clock, segments, logBefore, chunks, full_text_parts, pending,
                   model_name, loopFrame>>

\* lines 760-771: the non-streaming call inside the except TypeError clause;
\* nothing catches what it raises
Fallback ==
    /\ lpc = "fallback"
    /\ \E send \in {"ok", "error"}, logFails \in BOOLEAN :
         IF send = "error" \/ logFails
         THEN /\ Crash("turn")
              /\ remote' = IF send = "error" THEN "failed" ELSE "completed"
              /\ appendFailed' = (send = "ok")
              /\ UNCHANGED logs
         ELSE /\ lpc' = "handled"
              /\ remote' = "completed"
              /\ logs' = append_jsonl(logs, session_log,
                             Rec("assistant", None, None, <<"whole">>))
              /\ UNCHANGED <<crashedIn, appendFailed>>
    /\ UNCHANGED <<lastInput, line, model, chat, system_instruction, session_log,
                   clock, segments, logBefore, chunks, full_text_parts, pending,
                   model_name, loopFrame>>

\* lines 716-773: KeyboardInterrupt during the turn; it is not an Exception,
\* so after the finally block no except clause catches it
Interrupt ==
    /\ lpc \in {"stream", "finally", "log", "fallback"}
    /\ Crash("interrupt")
    /\ signal' = "stream"
    /\ UNCHANGED <<lastInput, line, model, chat, system_instruction, session_log, logs,
                   clock, segments, turnVars, model_name, outerFrame>>

\* line 468: `continue`, back to input(); the locals of the handler are dead
Continue ==
    /\ lpc = "handled"
    /\ lpc' = "await"
    /\ lastInput' = "none"
    /\ line' = None
    /\ signal' = "none"
    /\ logBefore' = <<>>
    /\ remote' = "none"
    /\ appendFailed' = FALSE
    /\ chunks' = <<>>
    /\ full_text_parts' = <<>>
    /\ pending' = "none"
    /\ UNCHANGED <<crashedIn, model, chat, system_instruction, session_log, logs,
                   clock, segments, model_name, outerFrame>>

LoopNext ==
    \/ Tick
    \/ Startup
    \/ BlankLine
    \/ CmdHelp
    \/ CmdUnknown
    \/ CmdModels
    \/ EndOfInput
    \/ CmdExit
    \/ CmdReset
    \/ CmdModel
    \/ CmdSystem
    \/ BeginPaste
    \/ PasteInterrupted
    \/ CmdPromptify
    \/ CmdFixcode
    \/ CmdTestify
    \/ TurnStart
    \/ StreamChunk
    \/ StreamFinally
    \/ StreamLog
    \/ Fallback
    \/ Interrupt
    \/ Continue

SpecLoop == LoopInit /\ [][LoopNext]_vars

(***************************************************************************)
(* The credential check, seen from both entry points: generate_text and    *)
(* the startup of start_chat_loop read the same GOOGLE_API_KEY             *)
(***************************************************************************)
MaxCredModels == 1

CredInit ==
    /\ TestifyIdle
    /\ PathIdle
    /\ LoopIdle
    /\ FmtIdle
    /\ LogIdle
    /\ StreamIdle
    /\ hasKey \in BOOLEAN
    /\ model_name \in {Id15F, Id15FL}
    /\ backend \in SeqsUpTo(ModelEntries, MaxCredModels)
    /\ failAt \in {NoFail} \cup (0..Len(backend))
    /\ listed = FALSE
    /\ available = <<>>
    /\ candidates = <<>>
    /\ tried = <<>>
    /\ last_err = None
    /\ idx = 1
    /\ invoked = <<>>
    /\ gpc = "start"
    /\ result = [kind |-> "none"]

CredNext ==
    \/ GenStart
    \/ TryCandidate
    \/ Exhausted
    \/ Startup

SpecCred == CredInit /\ [][CredNext]_vars

(***************************************************************************)
(* The formatters: what _ai_generate_fixed_code, _ai_generate_test_lines   *)
(* and _generate_pytests_for_python make of the text the model returned.   *)
(* A text is a sequence of lexemes; Width gives the characters of each.    *)
(***************************************************************************)
\* three backticks
Fence == "FENCE"

NL == "\n"

Ws == {" ", NL}

\* the lexemes matching \w+
WordLex == {"a", "b", "x", "X", "f", "1", "2", "python", "Python",
            "def", "import", "class", "public", "function"}

Digits == {"1", "2"}

Width(tok) ==
    CASE tok = Fence -> 3
      [] tok \in {"python", "Python", "import", "public"} -> 6
      [] tok = "function" -> 8
      [] tok = "#include" -> 8
      [] tok = "class" -> 5
      [] tok = "FILE:" -> 5
      [] tok = "def" -> 3
      [] tok = "=>" -> 2
      [] OTHER -> 1

\* len(s)
RECURSIVE CharCount(_)
CharCount(s) == IF s = <<>> THEN 0 ELSE Width(Head(s)) + CharCount(Tail(s))

\* the index after the longest run of lexemes of `set` starting at i
RECURSIVE RunEnd(_, _, _)
RunEnd(t, i, set) == IF i <= Len(t) /\ t[i] \in set THEN RunEnd(t, i + 1, set) ELSE i

\* the first j >= from where a newline and a fence begin, 0 if there is none
RECURSIVE CloseFrom(_, _)
CloseFrom(t, j) ==
    IF j + 1 > Len(t) THEN 0
    ELSE IF t[j] = NL /\ t[j + 1] = Fence THEN j
    ELSE CloseFrom(t, j + 1)

\* the pattern of line 325: fence, (\w+)?, \n, (.*?), \n, fence, with re.S,
\* tried at position i
MatchAt(t, i) ==
    LET w == RunEnd(t, i + 1, WordLex)
        c == IF w <= Len(t) /\ t[w] = NL THEN CloseFrom(t, w + 1) ELSE 0
    IN  IF t[i] = Fence /\ c # 0
        THEN [ok |-> TRUE, lang |-> SubSeq(t, i + 1, w - 1),
              body |-> SubSeq(t, w + 1, c - 1), end |-> c + 2]
        ELSE [ok |-> FALSE, lang |-> <<>>, body |-> <<>>, end |-> i + 1]

\* re.finditer: the matches from left to right, none overlapping
RECURSIVE finditer(_, _)
finditer(t, i) ==
    IF i > Len(t) THEN <<>>
    ELSE LET m == MatchAt(t, i)
         IN  IF m.ok THEN <<[lang |-> m.lang, body |-> m.body]>> \o finditer(t, m.end)
             ELSE finditer(t, i + 1)

\* str.strip(): blanks and newlines at both ends
RECURSIVE LStripWs(_)
LStripWs(t) == IF t # <<>> /\ Head(t) \in Ws THEN LStripWs(Tail(t)) ELSE t

RECURSIVE RStripWs(_)
RStripWs(t) == IF t # <<>> /\ t[Len(t)] \in Ws THEN RStripWs(SubSeq(t, 1, Len(t) - 1)) ELSE t

StripWs(t) == RStripWs(LStripWs(t))

\* re.search(r"^\s*class\s+\w+", s, re.M)
ClassAtLineStart(s) ==
    \E q \in 1..Len(s) :
        /\ s[q] = "class"
        /\ \E p \in 1..q : (p = 1 \/ s[p - 1] = NL) /\ \A k \in p..(q - 1) : s[k] \in Ws
        /\ LET e == RunEnd(s, q + 1, Ws)
           IN  e > q + 1 /\ e <= Len(s) /\ s[e] \in WordLex

\* re.search(r"public\s+class\s+\w+", s)
PublicClass(s) ==
    \E i \in 1..Len(s) :
        /\ s[i] = "public"
        /\ LET a == RunEnd(s, i + 1, Ws)
               b == RunEnd(s, a + 1, Ws)
           IN  /\ a > i + 1 /\ a <= Len(s) /\ s[a] = "class"
               /\ b > a + 1 /\ b <= Len(s) /\ s[b] \in WordLex

\* re.search(r"function\s+\w+\s*\(|=>", s)
FunctionOrArrow(s) ==
    \/ \E i \in 1..Len(s) :
        /\ s[i] = "function"
        /\ LET a == RunEnd(s, i + 1, Ws)
               b == RunEnd(s, RunEnd(s, a, WordLex), Ws)
           IN  /\ a > i + 1 /\ a <= Len(s) /\ s[a] \in WordLex
               /\ b <= Len(s) /\ s[b] = "("
    \/ \E i \in 1..Len(s) : s[i] = "=>"

\* lines 244-257
guess_language_simple(code) ==
    LET s == StripWs(code)
        include == \E i \in 1..Len(s) : s[i] = "#include"
    IN  IF /\ \/ Contains(s, <<"def", " ">>)
              \/ Contains(s, <<"import", " ">>)
              \/ ClassAtLineStart(s)
           /\ ~include
        THEN <<"python">>
        ELSE IF include THEN <<"c">>
        ELSE IF PublicClass(s) THEN <<"java">>
        ELSE IF FunctionOrArrow(s) /\ \E i \in 1..Len(s) : s[i] = ";" THEN <<"javascript">>
        ELSE <<>>

\* variant of max: the last of the longest bodies
pick_last_largest(blocks) ==
    blocks[CHOOSE k \in 1..Len(blocks) :
              /\ \A j \in 1..Len(blocks) : CharCount(blocks[j].body) <= CharCount(blocks[k].body)
              /\ \A j \in (k + 1)..Len(blocks) :
                    CharCount(blocks[j].body) < CharCount(blocks[k].body)]

\* max(blocks, key=lambda m: len(m.group(2) or "")): a later block replaces
\* the best so far only when its key is greater
max_by_body(blocks) ==
    LET RECURSIVE Fold(_, _)
        Fold(i, best) ==
            IF i > Len(blocks) THEN best
            ELSE Fold(i + 1, IF CharCount(blocks[i].body) > CharCount(blocks[best].body)
                             THEN i ELSE best)
    IN  blocks[Fold(2, 1)]

\* variant: the fallback gives no language tag
ai_generate_fixed_code_untagged(out, code) ==
    LET blocks == finditer(out, 1)
    IN  IF blocks # <<>>
        THEN [kind |-> "ret", lang |-> Strip(max_by_body(blocks).lang),
              code |-> max_by_body(blocks).body]
        ELSE [kind |-> "ret", lang |-> <<>>, code |-> code]

\* lines 324-334
ai_generate_fixed_code(out, code) ==
    LET blocks == finditer(out, 1)
    IN  IF blocks # <<>>
        THEN [kind |-> "ret", lang |-> Strip(max_by_body(blocks).lang),
              code |-> max_by_body(blocks).body]
        ELSE [kind |-> "ret", lang |-> guess_language_simple(code), code |-> code]

\* str.splitlines() of a text whose only line break is "\n"
RECURSIVE SplitOnNL(_)
SplitOnNL(t) ==
    IF t = <<>> THEN << <<>> >>
    ELSE LET rest == SplitOnNL(Tail(t))
         IN  IF Head(t) = NL THEN << <<>> >> \o rest
             ELSE << <<Head(t)>> \o Head(rest) >> \o Tail(rest)

splitlines(t) ==
    LET parts == SplitOnNL(t)
    IN  IF parts[Len(parts)] = <<>> THEN SubSeq(parts, 1, Len(parts) - 1) ELSE parts

\* "\n".join(lines)
RECURSIVE JoinLines(_)
JoinLines(ls) ==
    IF ls = <<>> THEN <<>>
    ELSE IF Len(ls) = 1 THEN ls[1]
    ELSE ls[1] \o <<NL>> \o JoinLines(Tail(ls))

Placeholder == <<"<bo sung test case>">>

WantedLines == 4

\* m = re.match(r"^\s*\d+\.?\s*(.*)$", ln); m.group(1).strip() if m else ln
StripNumber(ln) ==
    LET d0 == RunEnd(ln, 1, Ws)
        d  == RunEnd(ln, d0, Digits)
        p  == IF d <= Len(ln) /\ ln[d] = "." THEN d + 1 ELSE d
    IN  IF d = d0 THEN ln
        ELSE StripWs(SubSeq(ln, RunEnd(ln, p, Ws), Len(ln)))

\* lines 279-288: the stripped non-blank lines, cleaned until there are four
CleanedLines(out) ==
    LET all == splitlines(out)
        lines == SelectSeq([i \in 1..Len(all) |-> StripWs(all[i])], LAMBDA ln : ln # <<>>)
        RECURSIVE Loop(_, _)
        Loop(i, cleaned) ==
            IF i > Len(lines) THEN cleaned
            ELSE LET c == Append(cleaned, StripNumber(lines[i]))
                 IN  IF Len(c) = WantedLines THEN c ELSE Loop(i + 1, c)
    IN  Loop(1, <<>>)

\* lines 289-291
RECURSIVE PadLines(_)
PadLines(cleaned) ==
    IF Len(cleaned) < WantedLines THEN PadLines(Append(cleaned, Placeholder)) ELSE cleaned

\* variant: nothing is added to a short list
ai_generate_test_lines_unpadded(out) ==
    LET c == CleanedLines(out)
    IN  [kind |-> "ret", lines |-> SubSeq(c, 1, IF Len(c) < WantedLines THEN Len(c) ELSE WantedLines)]

\* lines 279-292
ai_generate_test_lines(out) ==
    [kind |-> "ret", lines |-> SubSeq(PadLines(CleanedLines(out)), 1, WantedLines)]

LowerLex(tok) == IF tok = "Python" THEN "python" ELSE tok

\* lines 375-383
extract_code_blocks(text) ==
    LET ms == finditer(text, 1)
    IN  [i \in 1..Len(ms) |->
            [lang |-> StripWs([k \in 1..Len(ms[i].lang) |-> LowerLex(ms[i].lang[k])]),
             body |-> ms[i].body]]

NameLex == WordLex \cup {".", "-", "_"}

\* m = re.match(r"\s*#\s*FILE:\s*([\w\-_.]+)", first_line): the name, <<>> if no match
FileHeaderName(first_line) ==
    LET h == RunEnd(first_line, 1, Ws)
        f == RunEnd(first_line, h + 1, Ws)
        n == RunEnd(first_line, f + 1, Ws)
        e == RunEnd(first_line, n, NameLex)
    IN  IF /\ h <= Len(first_line) /\ first_line[h] = "#"
           /\ f <= Len(first_line) /\ first_line[f] = "FILE:"
           /\ e > n
        THEN SubSeq(first_line, n, e - 1)
        ELSE <<>>

UnitName == <<"test_user_unit.py">>

IntegrationName == <<"test_user_integration.py">>

\* lines 409-427: the files taken from the python blocks, at most two
PytestFiles(blocks) ==
    LET RECURSIVE Loop(_, _)
        Loop(i, results) ==
            IF i > Len(blocks) THEN results
            ELSE IF blocks[i].lang # <<"python">> THEN Loop(i + 1, results)
            ELSE LET lines == splitlines(blocks[i].body)
                     first_line == IF lines # <<>> THEN lines[1] ELSE <<>>
                     named == FileHeaderName(first_line)
                     body == IF named # <<>> THEN JoinLines(Tail(lines)) ELSE blocks[i].body
                     fname == IF named # <<>> THEN named
                              ELSE IF DOMAIN results = {} THEN UnitName
                              ELSE IntegrationName
                     r == [n \in DOMAIN results \cup {fname} |->
                              IF n = fname THEN body ELSE results[n]]
                 IN  IF Cardinality(DOMAIN r) >= 2 THEN r ELSE Loop(i + 1, r)
    IN  Loop(1, <<>>)

\* lines 408-430
generate_pytests_for_python(out, code) ==
    LET results == PytestFiles(extract_code_blocks(out))
    IN  IF DOMAIN results = {}
        THEN [kind |-> "raise", err |-> <<"RuntimeError">>]
        ELSE [kind |-> "ret", files |-> results]

MaxParts == 3

MaxLines == 5

Block(lang, body) == <<Fence>> \o lang \o <<NL>> \o body \o <<NL, Fence>>

\* what a reply is made of: prose, line breaks, a stray fence, fenced blocks
Pieces ==
    { <<"a">>, <<NL>>, <<Fence>>,
      Block(<<>>, <<"a">>),
      Block(<<"a">>, <<"b">>),
      Block(<<"b">>, <<"a", NL, "b">>),
      Block(<<>>, <<>>),
      Block(<<"python">>, <<"x">>),
      Block(<<"Python">>, <<"#", " ", "FILE:", " ", "a", ".", "b", NL, "x">>) }

RECURSIVE Flatten(_)
Flatten(ss) == IF ss = <<>> THEN <<>> ELSE Head(ss) \o Flatten(Tail(ss))

Replies == { Flatten(ps) : ps \in SeqsUpTo(Pieces, MaxParts) }

\* the lines a reply to the test-case prompt is made of
LineSamples ==
    { <<>>, <<" ">>, <<"a">>, <<"1", ".", " ", "a">>, <<"1", "2">>,
      <<" ", "2", "b", " ">> }

ListReplies == { JoinLines(ls) : ls \in SeqsUpTo(LineSamples, MaxLines) }

\* code the user handed to a formatter
CodeSamples ==
    { <<>>,
      <<"x">>,
      <<"def", " ", "f">>,
      <<"x", " ", "def">>,
      <<"import", " ", "x", NL, "#include">>,
      <<" ", "class", " ", "X">>,
      <<"x", " ", "class", " ", "X">>,
      <<"public", " ", "class", " ", "X">>,
      <<"function", " ", "f", "(", ";">>,
      <<"=>">>,
      <<"x", "=>", "x", ";", NL>> }

FmtInit ==
    /\ TestifyIdle
    /\ GenIdle
    /\ PathIdle
    /\ LoopIdle
    /\ LogIdle
    /\ StreamIdle
    /\ hasKey = TRUE
    /\ model_name = Id15FL
    /\ fret = [kind |-> "none"]
    /\ \/ fkind \in {"fixcode", "pytests"} /\ reply \in Replies /\ src \in CodeSamples
       \/ fkind = "testlines" /\ reply \in ListReplies /\ src = <<"x">>

Apply(kind, value) ==
    /\ fkind = kind
    /\ fret.kind = "none"
    /\ fret' = value
    /\ UNCHANGED <<fkind, reply, src, gvars, pvars, lvars, wvars, svars, yvars>>

FixedCode == Apply("fixcode", ai_generate_fixed_code(reply, src))

TestLines == Apply("testlines", ai_generate_test_lines(reply))

Pytests == Apply("pytests", generate_pytests_for_python(reply, src))

FmtNext ==
    \/ FixedCode
    \/ TestLines
    \/ Pytests

SpecFmt == FmtInit /\ [][FmtNext]_vars

(***************************************************************************)
(* _append_jsonl on a file system: the path check against the log          *)
(* directory, and the append.  Paths are character sequences as above.     *)
(***************************************************************************)
MaxLogDepth == 2

MaxWrites == 2

\* lines 114-117: abspath(join(getcwd(), "logs"))
ensure_log_dir == abspath(Cwd \o <<"/", "l", "o", "g", "s">>)

\* the directories that exist once _ensure_log_dir has run
Dirs == {<<"/">>, <<"/", "h">>, Cwd, ensure_log_dir}

dirname(p) == RenderAbs(SubSeq(Normalise(<<>>, Split(p)), 1, Len(Normalise(<<>>, Split(p))) - 1))

\* lines 120-123, for the one timestamp this file system shows: logs/c
SessionPath == ensure_log_dir \o <<"/", "c">>

LogNames == {<<"l", "o", "g", "s">>, <<"l", "o", "g", "s", "x">>, <<".", ".">>, <<"c">>, <<"p">>}

\* the paths _append_jsonl may be handed: relative or absolute
LogPathArgs ==
    {Tail(Join(cs)) : cs \in SeqsUpTo(LogNames, MaxLogDepth) \ {<<>>}}
        \cup {Join(cs) : cs \in SeqsUpTo(LogNames, MaxLogDepth - 1) \ {<<>>}}
        \cup {SessionPath}

LogTargets == {abspath(q) : q \in LogPathArgs}

LogRecs == {<<"r1">>, <<"r2">>}

LogInit ==
    /\ TestifyIdle
    /\ GenIdle
    /\ PathIdle
    /\ LoopIdle
    /\ FmtIdle
    /\ StreamIdle
    /\ hasKey = TRUE
    /\ model_name = Id15FL
    /\ disk = [f \in LogTargets |-> <<>>]
    /\ before = disk
    /\ wpath = <<>>
    /\ wres = "none"
    /\ nwrites = 0

\* lines 126-132
AppendJsonl(path, obj) ==
    /\ nwrites < MaxWrites
    /\ nwrites' = nwrites + 1
    /\ wpath' = path
    /\ before' = disk
    /\ LET safe_root == abspath(ensure_log_dir)
           abs_path == abspath(path)
       IN  IF ~StartsWith(abs_path, safe_root)
           THEN wres' = "ValueError" /\ UNCHANGED disk
           ELSE IF abs_path \in Dirs \/ dirname(abs_path) \notin Dirs
           THEN wres' = "OSError" /\ UNCHANGED disk
           ELSE wres' = "ok" /\ disk' = [disk EXCEPT ![abs_path] = Append(@, obj)]
    /\ UNCHANGED <<gvars, pvars, lvars, fvars, svars, yvars>>

\* the call sites of start_chat_loop: the path is the session's log file
SessionWrite == \E obj \in LogRecs : AppendJsonl(SessionPath, obj)

\* _append_jsonl called with any other path
DirectWrite == \E path \in LogPathArgs \ {SessionPath}, obj \in LogRecs : AppendJsonl(path, obj)

LogNext ==
    \/ SessionWrite
    \/ DirectWrite

SpecLog == LogInit /\ [][LogNext]_vars

(***************************************************************************)
(* One conversational turn with streaming (lines 711-773): the main        *)
(* thread and the spinner thread, one step per statement that the other    *)
(* thread can observe.                                                     *)
(***************************************************************************)
MaxStreamChunks == 2

MaxTicks == 2

Ticks(out) == Len(SelectSeq(out, LAMBDA c : c = "."))

StreamInit ==
    /\ TestifyIdle
    /\ GenIdle
    /\ PathIdle
    /\ LoopIdle
    /\ FmtIdle
    /\ LogIdle
    /\ hasKey = TRUE
    /\ model_name = Id15FL
    /\ mpc = "send"
    /\ tpc = "unborn"
    /\ stop_spinner = FALSE
    /\ first_chunk = FALSE
    /\ stdout = <<"Gemini: ">>
    /\ text_parts = <<>>
    /\ slog = <<"user">>
    /\ raised = "none"
    /\ nchunks = 0

mainFrame == <<gvars, pvars, lvars, fvars, wvars, yvars>>

\* line 718: chat.send_message(user, stream=True) returns or raises
Send ==
    /\ mpc = "send"
    /\ \E how \in {"ok", "TypeError", "Exception"} :
         mpc' = CASE how = "ok" -> "start"
                  [] how = "TypeError" -> "fallback"
                  [] OTHER -> "report"
    /\ UNCHANGED <<tpc, stop_spinner, first_chunk, stdout, text_parts, slog, raised, nchunks>>
    /\ UNCHANGED mainFrame

\* lines 719-725: the events are created unset and the thread is started
StartSpinner ==
    /\ mpc = "start"
    /\ mpc' = "iter"
    /\ tpc' = "check"
    /\ first_chunk' = FALSE
    /\ stop_spinner' = FALSE
    /\ text_parts' = <<>>
    /\ UNCHANGED <<stdout, slog, raised, nchunks>>
    /\ UNCHANGED mainFrame

\* lines 728-730: the iterator yields a chunk with or without text, ends, or raises
NextChunk ==
    /\ mpc = "iter"
    /\ \/ /\ nchunks < MaxStreamChunks
          /\ nchunks' = nchunks + 1
          /\ \E text \in BOOLEAN :
               mpc' = IF ~text THEN "iter"
                      ELSE IF ~first_chunk THEN "first_stop" ELSE "print_piece"
          /\ UNCHANGED raised
       \/ /\ mpc' = "finally"
          /\ \E exc \in {"none", "TypeError", "Exception"} : raised' = exc
          /\ UNCHANGED nchunks
    /\ UNCHANGED <<tpc, stop_spinner, first_chunk, stdout, text_parts, slog>>
    /\ UNCHANGED mainFrame

\* lines 732-733
FirstStop ==
    /\ mpc = "first_stop"
    /\ stop_spinner' = TRUE
    /\ first_chunk' = TRUE
    /\ mpc' = "first_join"
    /\ UNCHANGED <<tpc, stdout, text_parts, slog, raised, nchunks>>
    /\ UNCHANGED mainFrame

\* spinner_thread.join(timeout=1) returns once the thread has ended, or
\* when the second has passed, whatever the thread is doing
JoinTimeout(at, next) ==
    /\ mpc = at
    /\ \E timed_out \in BOOLEAN : timed_out \/ tpc = "done"
    /\ mpc' = next
    /\ UNCHANGED <<tpc, stop_spinner, first_chunk, stdout, text_parts, slog, raised, nchunks>>
    /\ UNCHANGED mainFrame

\* line 734
FirstJoin == JoinTimeout("first_join", "first_space")

\* line 735
PrintSpace ==
    /\ mpc = "first_space"
    /\ stdout' = Append(stdout, " ")
    /\ mpc' = "print_piece"
    /\ UNCHANGED <<tpc, stop_spinner, first_chunk, text_parts, slog, raised, nchunks>>
    /\ UNCHANGED mainFrame

\* lines 736-737
PrintPiece ==
    /\ mpc = "print_piece"
    /\ stdout' = Append(stdout, "text")
    /\ text_parts' = Append(text_parts, "text")
    /\ mpc' = "iter"
    /\ UNCHANGED <<tpc, stop_spinner, first_chunk, slog, raised, nchunks>>
    /\ UNCHANGED mainFrame

\* line 739
FinallyStop ==
    /\ mpc = "finally"
    /\ stop_spinner' = TRUE
    /\ mpc' = "finally_join"
    /\ UNCHANGED <<tpc, first_chunk, stdout, text_parts, slog, raised, nchunks>>
    /\ UNCHANGED mainFrame

\* lines 740-743
FinallyJoin == JoinTimeout("finally_join", "resolve")

\* lines 745-749, then the exception in flight reaches its handler
Resolve ==
    /\ mpc = "resolve"
    /\ stdout' = Append(stdout, NL)
    /\ mpc' = CASE raised = "none" -> "log"
                [] raised = "TypeError" -> "fallback"
                [] OTHER -> "report"
    /\ raised' = "none"
    /\ UNCHANGED <<tpc, stop_spinner, first_chunk, text_parts, slog, nchunks>>
    /\ UNCHANGED mainFrame

\* lines 751-759: the assistant record is written and the loop is back at input()
LogAssistant ==
    /\ mpc = "log"
    /\ slog' = Append(slog, "assistant")
    /\ mpc' = "await"
    /\ UNCHANGED <<tpc, stop_spinner, first_chunk, stdout, text_parts, raised, nchunks>>
    /\ UNCHANGED mainFrame

\* lines 760-771: the call is repeated without streaming
FallbackSend ==
    /\ mpc = "fallback"
    /\ \E ok \in BOOLEAN :
         IF ok
         THEN /\ stdout' = stdout \o <<"text", NL>>
              /\ slog' = Append(slog, "assistant")
         ELSE UNCHANGED <<stdout, slog>>
    /\ mpc' = "await"
    /\ UNCHANGED <<tpc, stop_spinner, first_chunk, text_parts, raised, nchunks>>
    /\ UNCHANGED mainFrame

\* lines 772-773
Report ==
    /\ mpc = "report"
    /\ stdout' = stdout \o <<NL, "error", NL>>
    /\ mpc' = "await"
    /\ UNCHANGED <<tpc, stop_spinner, first_chunk, text_parts, slog, raised, nchunks>>
    /\ UNCHANGED mainFrame

\* line 136: while not stop_event.is_set()
SpinnerCheck ==
    /\ tpc = "check"
    /\ tpc' = IF stop_spinner THEN "done" ELSE "print"
    /\ UNCHANGED <<mpc, stop_spinner, first_chunk, stdout, text_parts, slog, raised, nchunks>>
    /\ UNCHANGED mainFrame

\* line 137: print(".", end="", flush=True)
SpinnerPrint ==
    /\ tpc = "print"
    /\ Ticks(stdout) < MaxTicks
    /\ stdout' = Append(stdout, ".")
    /\ tpc' = "sleep"
    /\ UNCHANGED <<mpc, stop_spinner, first_chunk, text_parts, slog, raised, nchunks>>
    /\ UNCHANGED mainFrame

\* line 138: time.sleep(interval)
SpinnerSleep ==
    /\ tpc = "sleep"
    /\ tpc' = "check"
    /\ UNCHANGED <<mpc, stop_spinner, first_chunk, stdout, text_parts, slog, raised, nchunks>>
    /\ UNCHANGED mainFrame

StreamNext ==
    \/ Send
    \/ StartSpinner
    \/ NextChunk
    \/ FirstStop
    \/ FirstJoin
    \/ PrintSpace
    \/ PrintPiece
    \/ FinallyStop
    \/ FinallyJoin
    \/ Resolve
    \/ LogAssistant
    \/ FallbackSend
    \/ Report
    \/ SpinnerCheck
    \/ SpinnerPrint
    \/ SpinnerSleep

SpecStream == StreamInit /\ [][StreamNext]_vars

(***************************************************************************)
(* /testify behind its input phase (lines 646-690): what it writes, asks   *)
(* of the model and runs, in order                                         *)
(***************************************************************************)
\* what the input phase leaves in code_text: None, or a stripped text
TestifyCodes == {None} \cup {StripWs(c) : c \in CodeSamples}

Effect(op, arg) == [op |-> op, arg |-> arg]

TestifyInit ==
    /\ GenIdle
    /\ PathIdle
    /\ LoopIdle
    /\ FmtIdle
    /\ LogIdle
    /\ StreamIdle
    /\ hasKey = TRUE
    /\ model_name = Id15FL
    /\ tcode \in TestifyCodes
    /\ tstep = "input"
    /\ effects = <<>>
    /\ tfiles = <<>>

testifyFrame == <<gvars, pvars, lvars, fvars, wvars, svars>>

\* lines 646-648: if not code_text
CheckCode ==
    /\ tstep = "input"
    /\ tstep' = IF tcode = None \/ tcode = <<>> THEN "done" ELSE "lang"
    /\ UNCHANGED <<tcode, effects, tfiles>>
    /\ UNCHANGED testifyFrame

\* variant: every text is taken for Python
CheckLangSkipped ==
    /\ tstep = "lang"
    /\ tstep' = "write_user"
    /\ UNCHANGED <<tcode, effects, tfiles>>
    /\ UNCHANGED testifyFrame

\* lines 650-655
CheckLang ==
    /\ tstep = "lang"
    /\ tstep' = IF guess_language_simple(tcode) # <<"python">> THEN "done" ELSE "write_user"
    /\ UNCHANGED <<tcode, effects, tfiles>>
    /\ UNCHANGED testifyFrame

\* lines 657-661: the user_code directory is made and the file written;
\* nothing catches what _write_text_file raises
WriteUser ==
    /\ tstep = "write_user"
    /\ \E fails \in BOOLEAN :
         IF fails
         THEN tstep' = "crashed" /\ UNCHANGED effects
         ELSE /\ effects' = Append(effects, Effect("write_user", tcode))
              /\ tstep' = "generate"
    /\ UNCHANGED <<tcode, tfiles>>
    /\ UNCHANGED testifyFrame

\* lines 663-667: the model is asked for the tests; a failure of the call
\* or of the extraction is reported
GenerateTests ==
    /\ tstep = "generate"
    /\ \/ /\ effects' = Append(effects, Effect("invoke", None))
          /\ tstep' = "done"
          /\ UNCHANGED tfiles
       \/ \E out \in Replies :
            LET r == generate_pytests_for_python(out, tcode)
            IN  /\ effects' = Append(effects, Effect("invoke", out))
                /\ IF r.kind = "raise"
                   THEN tstep' = "done" /\ UNCHANGED tfiles
                   ELSE tstep' = "write_tests" /\ tfiles' = r.files
    /\ UNCHANGED tcode
    /\ UNCHANGED testifyFrame

\* lines 669-685: the generated files are written; not guarded either
WriteTests ==
    /\ tstep = "write_tests"
    /\ \E fails \in BOOLEAN :
         IF fails
         THEN tstep' = "crashed" /\ UNCHANGED effects
         ELSE /\ effects' = Append(effects, Effect("write_tests", None))
              /\ tstep' = "pytest"
    /\ UNCHANGED <<tcode, tfiles>>
    /\ UNCHANGED testifyFrame

\* lines 687-690: pytest runs, its failure to start is captured as text
RunPytest ==
    /\ tstep = "pytest"
    /\ effects' = Append(effects, Effect("pytest", None))
    /\ tstep' = "done"
    /\ UNCHANGED <<tcode, tfiles>>
    /\ UNCHANGED testifyFrame

TestifyNext ==
    \/ CheckCode
    \/ CheckLang
    \/ WriteUser
    \/ GenerateTests
    \/ WriteTests
    \/ RunPytest

SpecTestify == TestifyInit /\ [][TestifyNext]_vars

(***************************************************************************)
(* Properties of generate_text                                             *)
(***************************************************************************)
\* the markers as the contract lists them
TransientMarkers == {<<"404">>, <<"not", "found">>, <<"is", "not", "supported">>,
                     <<"invalid", "argument">>}

MatchesTransientMarker(e) == \E m \in TransientMarkers : Contains(Lower(e), m)

\* the first k generate calls failed with a transient-marker error
FirstKTransient(k) ==
    /\ k <= Len(invoked)
    /\ \A i \in 1..k : ~invoked[i].out.ok /\ MatchesTransientMarker(invoked[i].out.err)

\* C1: when the first K candidates fail with a transient-marker error and
\* candidate K+1 succeeds, generate_text returns the text of candidate K+1,
\* tried holds exactly the first K candidates in order, and no candidate
\* after K+1 is invoked.
C1_FallbackReturnsFirstSuccess ==
    \A k \in 0..(Len(invoked) - 1) :
        (FirstKTransient(k) /\ invoked[k + 1].out.ok) =>
            /\ gpc = "returned"
            /\ result = [kind |-> "text", text |-> invoked[k + 1].out.text]
            /\ tried = SubSeq(candidates, 1, k)
            /\ Len(invoked) = k + 1
            /\ \A i \in 1..(k + 1) : invoked[i].name = candidates[i]

C1_Witness ==
    /\ gpc = "returned"
    /\ Len(invoked) = 3
    /\ FirstKTransient(2)
    /\ Len(candidates) > 3

\* C2: when every candidate fails with a transient-marker error,
\* generate_text raises the 'no usable model' error with attempted = the
\* whole candidate list in order, the available list obtained from the
\* backend, and the error of the last candidate tried (None and an empty
\* attempted list when there is no candidate).
C2_ExhaustedReportsAll ==
    (/\ gpc = "raised"
     /\ hasKey
     /\ Len(invoked) = Len(candidates)
     /\ FirstKTransient(Len(candidates)))
    => result = [kind |-> "nousable",
                 attempted |-> candidates,
                 available |-> available,
                 last |-> IF candidates = <<>> THEN None
                          ELSE invoked[Len(invoked)].out.err]

C2_Witness ==
    /\ gpc = "raised"
    /\ result.kind = "nousable"
    /\ Len(candidates) >= 3
    /\ invoked[1].out.err # invoked[Len(invoked)].out.err

\* C3: a candidate failing with an error that matches no transient marker
\* ends the invocation with that same error: it is the last call issued and
\* the outcome is the error itself, not the 'no usable model' error.
C3_NonTransientAborts ==
    \A i \in 1..Len(invoked) :
        (~invoked[i].out.ok /\ ~MatchesTransientMarker(invoked[i].out.err)) =>
            /\ i = Len(invoked)
            /\ gpc = "raised"
            /\ result = [kind |-> "error", err |-> invoked[i].out.err]

C3_Witness ==
    /\ gpc = "raised"
    /\ result.kind = "error"
    /\ Len(invoked) >= 2
    /\ Len(candidates) > Len(invoked)
    /\ result.err = ErrNotPermitted

\* C4: the candidate list never contains the same identifier twice.
C4_NoDuplicateCandidates == NoDup(candidates)

C4_Witness ==
    /\ gpc = "loop"
    /\ Len(available) = 2
    /\ available[1] = available[2]
    /\ available[1] = model_name \o <<"-latest">>

Pos(x, s) == CHOOSE i \in 1..Len(s) : s[i] = x /\ \A j \in 1..(i - 1) : s[j] # x

RankedAvailable == {i \in 1..Len(pref_order) : InSeq(pref_order[i], available)}

\* C5 as stated: any two ids of the static ranking that are both in the
\* available list appear in the candidate list in ranking order.
C5_RankingOrderForAll ==
    gpc # "start" =>
        \A i, j \in RankedAvailable :
            i < j => Pos(pref_order[i], candidates) < Pos(pref_order[j], candidates)

\* C5 amended: any two ids of the static ranking that are both in the
\* available list, neither being the preferred id nor the "-latest" variant
\* appended for it, appear in the candidate list in ranking order.
C5_RankingOrderBehindPreferred ==
    gpc # "start" =>
        \A i, j \in RankedAvailable :
            (/\ i < j
             /\ ~InSeq(pref_order[i], PreferredPart(model_name))
             /\ ~InSeq(pref_order[j], PreferredPart(model_name)))
            => Pos(pref_order[i], candidates) < Pos(pref_order[j], candidates)

C5_Witness ==
    /\ gpc = "loop"
    /\ available = <<IdPro, Id25F>>
    /\ model_name = IdX
    /\ candidates = <<IdX, Id25F, IdPro>>

\* the ids of the generate-capable, named entries among the first n
EnumeratedBefore(n) ==
    LET kept == SelectSeq(SubSeq(backend, 1, n),
                          LAMBDA m : m.name # <<>> /\
                                     (m.methods \cap {"generateContent", "GENERATECONTENT"}) # {})
    IN [i \in 1..Len(kept) |-> kept[i].name]

\* C10 as stated: whenever the list-models query fails, the available list
\* is empty and the candidates are the preferred id and its variant only.
C10_FailureMeansEmpty ==
    (hasKey /\ gpc # "start" /\ failAt # NoFail) =>
        /\ available = <<>>
        /\ candidates = PreferredPart(model_name)

\* C10 amended: a failing list-models query is not fatal; the available list
\* is what was enumerated before the failure (empty when the query fails
\* before the first model, and then the candidates are the preferred id and
\* its "-latest" variant only), and the fallback loop runs on it.
C10_FailureKeepsEnumerated ==
    (hasKey /\ gpc # "start" /\ failAt # NoFail) =>
        /\ available = EnumeratedBefore(failAt)
        /\ failAt = 0 => (available = <<>> /\ candidates = PreferredPart(model_name))
        /\ gpc = "raised" => /\ result.kind \in {"error", "nousable"}
                             /\ Len(invoked) > 0 \/ candidates = <<>>
        /\ result.kind = "nousable" => result.available = EnumeratedBefore(failAt)

C10_Witness ==
    /\ failAt = 1
    /\ Len(backend) = 2
    /\ available = <<Id25F>>
    /\ result.kind = "nousable"
    /\ result.available = <<Id25F>>

(***************************************************************************)
(* Properties of the path commands                                         *)
(***************************************************************************)
\* the path names a file of the working directory: its components extend
\* the components of the working directory
InsideCwd(p) == Len(Split(p)) > Len(Split(Cwd)) /\ SubSeq(Split(p), 1, Len(Split(Cwd))) = Split(Cwd)

\* C9: a path argument that does not resolve to a file inside the working
\* directory is refused, nothing is read from it and pasted input is asked
\* for; no file outside the working directory is ever read, sibling
\* directories whose name begins with the working directory's name included.
C9_NeverReadsOutsideCwd ==
    /\ \A f \in opened : InsideCwd(f)
    /\ (parg # NoArg /\ ~(InsideCwd(abspath(parg)) /\ isfile(abspath(parg)))) =>
           (refused /\ askedPaste)

(***************************************************************************)
(* Properties of the session loop                                          *)
(***************************************************************************)
\* C6: a failure of a collaborator during a command or a turn never ends
\* the loop; the loop ends only on a missing credential at startup, on
\* end-of-input or interrupt at the prompt, or on /exit.
C6_FailuresNeverEndLoop ==
    lpc \in Terminated =>
        \/ lpc = "exit1" /\ ~hasKey
        \/ lpc = "exit0" /\ lastInput \in {"eof", "/exit"}
        \/ lpc = "crashed" /\ crashedIn \in {"startup", "interrupt"}

Tags(recs) == [i \in 1..Len(recs) |-> recs[i].tag]

\* what the turn being handled has added to the current log file
TurnRecords == SubSeq(logs[session_log], Len(logBefore) + 1, Len(logs[session_log]))

TurnHandled ==
    /\ lpc = "handled"
    /\ lastInput = "turn"

\* C7 as stated: every turn appends exactly one user record and then exactly
\* one assistant record to the current log file before the loop awaits
\* input again, whether the remote call succeeds, streams nothing or fails.
C7_TurnLogsUserAndAssistant ==
    TurnHandled =>
        /\ SubSeq(logs[session_log], 1, Len(logBefore)) = logBefore
        /\ Tags(TurnRecords) = <<"user", "assistant">>

\* C7 amended: every turn that returns to awaiting input has appended exactly
\* one user record to the current log file, followed by exactly one
\* assistant record when the remote call completed and that record could be
\* written; after a failed remote call only the user record is there.
C7_TurnLogsUserThenAssistantIfCompleted ==
    TurnHandled =>
        /\ SubSeq(logs[session_log], 1, Len(logBefore)) = logBefore
        /\ Tags(TurnRecords) = IF remote = "completed" /\ ~appendFailed
                               THEN <<"user", "assistant">>
                               ELSE <<"user">>
        /\ remote \in {"completed", "failed"}

C7_Witness ==
    /\ TurnHandled
    /\ remote = "failed"
    /\ full_text_parts # <<>>
    /\ Len(logBefore) >= 2
    /\ Tags(TurnRecords) = <<"user">>

\* C8: every segment event (session start, /reset, successful /model,
\* /system) is written to a file no earlier segment used.
C8_NewFilePerSegment == NoDup(segments)

\* C20: after any sequence of commands the model handle, the chat session
\* and the model name used for skills and log records name the same model.
C20_HandleChatAndNameAgree ==
    lpc \in {"await", "paste", "handled", "stream", "finally", "log", "fallback"} =>
        /\ model = chat
        /\ chat = model_name

(***************************************************************************)
(* The candidate list as a whole                                           *)
(***************************************************************************)
RECURSIVE FirstOccurrences(_)
\* s without the later repetitions of its elements
FirstOccurrences(s) ==
    IF s = <<>> THEN <<>>
    ELSE LET init == SubSeq(s, 1, Len(s) - 1)
         IN IF InSeq(s[Len(s)], init) THEN FirstOccurrences(init)
            ELSE Append(FirstOccurrences(init), s[Len(s)])

\* the preferred id when one is given, then its "-latest" variant if eligible
PreferredAndVariant ==
    LET eligible == /\ ~EndsWith(model_name, <<"-latest">>)
                    /\ \/ StartsWith(model_name, <<"gemini-1.5-">>)
                       \/ StartsWith(model_name, <<"gemini-2.">>)
    IN IF model_name = <<>> THEN <<>>
       ELSE <<model_name>> \o (IF eligible THEN << model_name \o <<"-latest">> >> ELSE <<>>)

\* C13: the candidate list is the first-occurrence de-duplication of the
\* preferred id, its "-latest" variant if eligible, the ids of the static
\* ranking that are available (in ranking order) and the available ids in
\* backend order; preferred "x" with available ["gemini-1.5-flash"] gives
\* ["x", "gemini-1.5-flash"].
C13_CandidatesAreOrderedUnion ==
    gpc # "start" /\ hasKey =>
        /\ candidates = FirstOccurrences(
               PreferredAndVariant
               \o SelectSeq(pref_order, LAMBDA n : InSeq(n, available))
               \o available)
        /\ (model_name = IdX /\ available = <<Id15F>>) => candidates = <<IdX, Id15F>>

C13_Witness ==
    /\ gpc = "loop"
    /\ model_name = Id15F
    /\ available = <<IdX, Id25F>>
    /\ candidates = <<Id15F, Id15FL, Id25F, IdX>>

\* C14: an end-of-input or interrupt signal ends the loop with status 0 in
\* whichever state it arrives: at the prompt, while pasted code is read
\* inside a command, or while a response is streamed.
C14_SignalExitsWithZero == signal # "none" => lpc = "exit0"

(***************************************************************************)
(* Missing credential                                                      *)
(***************************************************************************)
NoLogFile == session_log = None /\ segments = <<>> /\ \A f \in DOMAIN logs : logs[f] = <<>>

\* C18: without a credential, generate_text fails with the missing-key error
\* before it lists models or calls any model, and startup ends the program
\* with a non-zero status before any log file exists
C18_MissingCredentialFailsFirst ==
    ~hasKey =>
        /\ gpc # "start" =>
              /\ gpc = "raised"
              /\ result = [kind |-> "nokey"]
              /\ ~listed
              /\ invoked = <<>>
        /\ lpc # "init" =>
              /\ lpc = "exit1"
              /\ NoLogFile

C18_Witness == ~hasKey /\ gpc = "raised" /\ ~listed /\ lpc = "exit1" /\ backend # <<>>

(***************************************************************************)
(* Properties of the formatters                                            *)
(***************************************************************************)
\* block k is the earliest of the longest bodies
EarliestLongest(bs, k) ==
    /\ \A j \in 1..Len(bs) : CharCount(bs[j].body) <= CharCount(bs[k].body)
    /\ \A j \in 1..(k - 1) : CharCount(bs[j].body) < CharCount(bs[k].body)

\* C15: of the fenced blocks of a reply, the corrected code is the body with
\* the most characters wherever it stands, and the earliest such on a tie
C15_LargestBlockEarliestOnTie ==
    (fkind = "fixcode" /\ fret.kind = "ret" /\ finditer(reply, 1) # <<>>) =>
        LET bs == finditer(reply, 1)
        IN  \E k \in 1..Len(bs) :
                /\ EarliestLongest(bs, k)
                /\ fret.code = bs[k].body
                /\ fret.lang = bs[k].lang

\* three blocks, the longest last, and two blocks of equal length
C15_Witness ==
    /\ fkind = "fixcode"
    /\ \/ /\ reply = Flatten(<<Block(<<>>, <<"a">>), Block(<<"a">>, <<"b">>),
                                Block(<<"b">>, <<"a", NL, "b">>)>>)
          /\ fret = [kind |-> "ret", lang |-> <<"b">>, code |-> <<"a", NL, "b">>]
       \/ /\ reply = Flatten(<<Block(<<"a">>, <<"b">>), Block(<<>>, <<"a">>)>>)
          /\ fret = [kind |-> "ret", lang |-> <<"a">>, code |-> <<"b">>]

NonBlankLines(out) ==
    LET all == splitlines(out)
    IN  SelectSeq([i \in 1..Len(all) |-> StripWs(all[i])], LAMBDA ln : ln # <<>>)

\* C16: the numbered-list extraction returns four entries whatever the reply:
\* the first four non-blank lines without their numeric prefix, and the
\* placeholder in every position the reply has no line for
C16_AlwaysFourEntries ==
    (fkind = "testlines" /\ fret.kind = "ret") =>
        LET nb == NonBlankLines(reply)
        IN  /\ Len(fret.lines) = 4
            /\ \A i \in 1..4 :
                  fret.lines[i] = IF i <= Len(nb) THEN StripNumber(nb[i]) ELSE Placeholder
            /\ reply = <<>> => fret.lines = <<Placeholder, Placeholder, Placeholder, Placeholder>>
            /\ reply = <<"1", ".", " ", "a", NL, " ", "2", "b", " ">> =>
                  fret.lines = << <<"a">>, <<"b">>, Placeholder, Placeholder >>

C16_Witness ==
    /\ fkind = "testlines"
    /\ reply = <<"1", ".", " ", "a", NL, " ", NL, "a">>
    /\ fret = [kind |-> "ret", lines |-> << <<"a">>, <<"a">>, Placeholder, Placeholder >>]

NoFencedBlock == fkind \in {"fixcode", "pytests"} /\ fret.kind # "none" /\ finditer(reply, 1) = <<>>

\* C19: a reply without any fenced block makes every formatter that needs
\* one return the original input with a guessed language, and none raises
C19_NoBlockDegradesEverywhere ==
    NoFencedBlock =>
        /\ fret.kind = "ret"
        /\ fkind = "fixcode" => fret.code = src /\ fret.lang = guess_language_simple(src)
        /\ fkind = "pytests" => \E n \in DOMAIN fret.files : fret.files[n] = src

\* C19, amended: without any fenced block the corrected-code formatter
\* returns the original input with the guessed language and does not raise,
\* while the pytest-file formatter raises a RuntimeError to its caller
C19_NoBlockDegradesOrRaises ==
    NoFencedBlock =>
        /\ fkind = "fixcode" =>
              /\ fret = [kind |-> "ret", lang |-> guess_language_simple(src), code |-> src]
              /\ src = <<"def", " ", "f">> => fret.lang = <<"python">>
              /\ src = <<"import", " ", "x", NL, "#include">> => fret.lang = <<"c">>
              /\ src = <<"public", " ", "class", " ", "X">> => fret.lang = <<"java">>
              /\ src = <<"x", " ", "def">> => fret.lang = <<>>
        /\ fkind = "pytests" => fret = [kind |-> "raise", err |-> <<"RuntimeError">>]

C19_Witness ==
    /\ fkind = "fixcode"
    /\ reply = <<"a", NL, Fence>>
    /\ src = <<"def", " ", "f">>
    /\ fret = [kind |-> "ret", lang |-> <<"python">>, code |-> src]

(***************************************************************************)
(* Properties of the log writes                                            *)
(***************************************************************************)
InsideLogDir(q) ==
    /\ Len(Split(q)) > Len(Split(ensure_log_dir))
    /\ SubSeq(Split(q), 1, Len(Split(ensure_log_dir))) = Split(ensure_log_dir)

IsPrefix(a, b) == Len(a) <= Len(b) /\ SubSeq(b, 1, Len(a)) = a

\* C17: every log write lands in a file inside the log directory and only
\* appends: a write to a path outside the log directory is rejected with an
\* error and writes nothing, and what a file holds is never changed or lost
C17_WritesConfinedAndAppendOnly ==
    /\ \A f \in DOMAIN disk : disk[f] # <<>> => InsideLogDir(f)
    /\ (wres # "none" /\ ~InsideLogDir(abspath(wpath))) => wres # "ok" /\ disk = before
    /\ \A f \in DOMAIN disk : IsPrefix(before[f], disk[f])

(***************************************************************************)
(* Properties of the spinner                                               *)
(***************************************************************************)
NoTickAfterContent ==
    \A i, j \in 1..Len(stdout) : (stdout[i] = "text" /\ stdout[j] = ".") => j < i

\* C11: however the two threads interleave, the spinner prints no tick once
\* content has been printed, and a step of the spinner leaves the log and
\* the response buffer as they are
C11_SpinnerOnlyBeforeContent ==
    [][/\ NoTickAfterContent'
       /\ (tpc' # tpc /\ mpc' = mpc) => UNCHANGED <<slog, text_parts>>]_vars

\* C12: when the turn is over and the loop is back at input(), the stop
\* event is set and the spinner thread is no longer running
C12_SpinnerGoneAtNextInput ==
    (mpc = "await" /\ tpc # "unborn") => stop_spinner /\ tpc = "done"

(***************************************************************************)
(* What a line at the prompt may cause                                     *)
(***************************************************************************)
\* the step appends a user or assistant record to some log file
WritesTurnRecord ==
    \E f \in DOMAIN logs :
        /\ Len(logs'[f]) > Len(logs[f])
        /\ logs'[f][Len(logs'[f])].tag \in {"user", "assistant"}

\* the step hands the line to the chat session
SendsToChat == remote = "none" /\ remote' # "none"

\* C21: a user or assistant record is written, and the chat is called, only
\* for a line that is not blank and does not start with "/"; blank lines and
\* command lines, known or not, with or without arguments, cause neither
C21_OnlyTurnLinesReachChat ==
    [][(WritesTurnRecord \/ SendsToChat) =>
          /\ line' # None
          /\ Strip(line') # <<>>
          /\ Head(Strip(line')) # "/"]_vars

\* an unknown command typed after a completed turn has added nothing
C21_Witness ==
    /\ lpc = "handled"
    /\ line = <<"/", "x">>
    /\ lastInput = "/unknown"
    /\ remote = "none"
    /\ Tags(logs[session_log]) = <<"session_start", "user", "assistant">>

(***************************************************************************)
(* The shape of a log file                                                 *)
(***************************************************************************)
SegmentTags == {"session_start", "session_reset", "model_changed", "system_changed"}

\* C22: every log file begins with a segment event record, and a user or
\* assistant record is appended only to the file of the current segment,
\* behind the event record of that segment
C22_FilesBeginWithSegmentEvent ==
    [][/\ \A f \in DOMAIN logs : logs'[f] # <<>> => logs'[f][1].tag \in SegmentTags
       /\ \A f \in DOMAIN logs :
             (Len(logs'[f]) > Len(logs[f]) /\ logs'[f][Len(logs'[f])].tag \in {"user", "assistant"}) =>
                 /\ f = session_log
                 /\ segments # <<>>
                 /\ segments[Len(segments)] = f
                 /\ \E i \in 1..Len(logs[f]) : logs[f][i].tag \in SegmentTags]_vars

(***************************************************************************)
(* Properties of /testify                                                  *)
(***************************************************************************)
\* C23: a /testify whose input is cancelled, empty or not taken for Python
\* writes no file, asks nothing of the model and runs no test; the user
\* file is written, verbatim, only for input taken for Python, and before
\* the tests are asked for
C23_NothingHappensWithoutPython ==
    /\ (tcode = None \/ tcode = <<>> \/ guess_language_simple(tcode) # <<"python">>) =>
          effects = <<>>
    /\ tcode \in {<<"x">>, <<"x", " ", "def">>, <<"public", " ", "class", " ", "X">>} =>
          effects = <<>>
    /\ \A i \in 1..Len(effects) :
          effects[i].op = "write_user" =>
              /\ i = 1
              /\ effects[i].arg = tcode
              /\ tcode = <<"def", " ", "f">> \/ tcode = <<"class", " ", "X">>
    /\ \A i \in 1..Len(effects) :
          effects[i].op # "write_user" => effects[1].op = "write_user"

C23_Witness ==
    /\ tstep = "done"
    /\ tcode = <<"import", " ", "x", NL, "#include">>
    /\ effects = <<>>

====
